---------------------------- MODULE Spec2Model ----------------------------
(***************************************************************************)
(* CalcPlot.jsx: the chart registry (CHARTS and its numeric helpers) and   *)
(* the renderer adapter (loadPlotly and the PlotlyChart effect/cleanup).   *)
(*                                                                         *)
(* Spec      the adapter: component instances mounting, changing chart,    *)
(*           unmounting, the script load settling, promise reactions run   *)
(*           as microtasks.                                                *)
(* SpecCalc  the pure helpers: linspace and the chart producers applied    *)
(*           to inputs drawn from bounded sets.                            *)
(***************************************************************************)
EXTENDS Integers, Sequences, FiniteSets, TLC

\* ------------------------------------------------------------------ bounds
NumInst    == 2     \* PlotlyChart instances on the page
MaxChanges == 1     \* chartName changes over all instances
Precision  == 5     \* significand bits of the model's binary floating point
MaxAbs     == 20    \* linspace endpoints range over -MaxAbs..MaxAbs
MaxCount   == 5     \* linspace counts range over 2..MaxCount
MaxCoord   == 2     \* boxMesh bounds range over 0..MaxCoord

Inst == 1..NumInst

\* ------------------------------------------------------------ arithmetic
\* JavaScript numbers are binary floating point: every operation returns the
\* exact result rounded to the nearest representable value, ties to even.
\* The model keeps that with a significand of Precision bits instead of 53
\* (and no overflow): a value is an integer count of the smallest step, and
\* is representable when it has at most Precision significant bits.
RECURSIVE Pow2(_)
Pow2(k) == IF k = 0 THEN 1 ELSE 2 * Pow2(k - 1)

Abs(a) == IF a < 0 THEN -a ELSE a

\* The gap between neighbouring representable values at magnitude a / b.
RECURSIVE SpacingFrom(_, _, _)
SpacingFrom(a, b, k) ==
  IF a < Pow2(Precision + k) * b THEN Pow2(k) ELSE SpacingFrom(a, b, k + 1)

Ulp(a) == SpacingFrom(Abs(a), 1, 0)

\* a / d (a >= 0, d > 0) rounded to the nearest integer, ties to even.
RoundHalfEven(a, d) ==
  LET f == a \div d
      r == a - f * d
  IN IF 2 * r < d THEN f
     ELSE IF 2 * r > d THEN f + 1
     ELSE IF f % 2 = 0 THEN f ELSE f + 1

\* The representable value nearest to a / b (b > 0).
RoundRat(a, b) ==
  LET sp == SpacingFrom(Abs(a), b, 0)
      m  == RoundHalfEven(Abs(a), b * sp) * sp
  IN IF a < 0 THEN -m ELSE m

Representable(a) == RoundRat(a, 1) = a

\* ----------------------------------------------------------- math helpers
\* A linspace that divides by n instead of n - 1.
linspace_divByN(start, end, n) ==
  [k \in 1..n |->
     RoundRat(start + RoundRat(RoundRat(RoundRat(end - start, 1) * (k - 1), 1), n), 1)]

\* linspace (lines 5..7): element i is start + (end - start) * i / (n - 1),
\* each of the four operations rounded, for i = 0..n-1.
linspace(start, end, n) ==
  [k \in 1..n |->
     RoundRat(start + RoundRat(RoundRat(RoundRat(end - start, 1) * (k - 1), 1), n - 1), 1)]

\* ---------------------------------------------------------------- registry
\* The own keys of CHARTS (lines 46..423).
ChartKeys ==
  { "riemann-sum", "surface-revolution", "3d-coordinates", "helix-tangent",
    "multivariable-surface", "partial-derivatives", "tangent-plane",
    "gradient-vectors", "critical-points", "double-integral",
    "coordinate-systems", "vector-field-3d", "black-scholes" }

\* Property names CHARTS inherits from Object.prototype whose value is a
\* function that returns normally when called with no receiver and no
\* arguments (Object() gives {}, toString gives "[object Undefined]"): the
\* result has neither data nor layout.
InheritedCallable == { "constructor", "toString" }

\* Inherited names whose call throws a TypeError: "__proto__" is an object,
\* not a function; hasOwnProperty and valueOf reject an undefined receiver.
InheritedThrowing == { "__proto__", "hasOwnProperty", "valueOf" }

\* CHARTS[chartName] (line 484): a plain property read, prototype chain
\* included.
Lookup(name) ==
  IF name \in ChartKeys THEN "producer"
  ELSE IF name \in InheritedCallable THEN "inheritedFn"
  ELSE IF name \in InheritedThrowing THEN "inheritedThrow"
  ELSE "undefined"

\* ------------------------------------------------------ chart descriptors
\* A descriptor is [data |-> sequence of traces, layout |-> record].  A
\* trace keeps its type and its coordinate arrays; colours, names and other
\* styling attributes are left out.  Numeric arguments are in hundredths
\* (Math.PI is 314); a value the model does not compute (a sine, a price)
\* is the token Opaque.  Array lengths and nesting are exactly the code's.
Opaque == "number"

\* arr.map(v => f(v))
MapNum(arr) == [k \in 1..Len(arr) |-> Opaque]

\* Array(n).fill(v)
Fill(n, v) == [k \in 1..n |-> v]

\* A grid built with rows and columns exchanged.
Grid_swapped(rows, cols) == [j \in 1..Len(cols) |-> MapNum(rows)]

\* rows.map(r => cols.map(c => f(c, r))), for instance lines 178..180
Grid(rows, cols) == [j \in 1..Len(rows) |-> MapNum(cols)]

\* A boxMesh whose first triangle ends at vertex 6 instead of vertex 2.
boxMesh_offPlane(x0, x1, y0, y1, z0, z1, color) ==
  [ type |-> "mesh3d",
    x |-> << x0, x1, x1, x0, x0, x1, x1, x0 >>,
    y |-> << y0, y0, y1, y1, y0, y0, y1, y1 >>,
    z |-> << z0, z0, z0, z0, z1, z1, z1, z1 >>,
    i |-> << 0, 0, 4, 4, 0, 0, 1, 1, 2, 2, 3, 3 >>,
    j |-> << 1, 2, 5, 6, 1, 5, 2, 6, 3, 7, 0, 4 >>,
    k |-> << 6, 3, 6, 7, 5, 4, 6, 5, 7, 6, 4, 7 >>,
    color |-> color ]

\* boxMesh (lines 23..37)
boxMesh(x0, x1, y0, y1, z0, z1, color) ==
  [ type |-> "mesh3d",
    x |-> << x0, x1, x1, x0, x0, x1, x1, x0 >>,
    y |-> << y0, y0, y1, y1, y0, y0, y1, y1 >>,
    z |-> << z0, z0, z0, z0, z1, z1, z1, z1 >>,
    i |-> << 0, 0, 4, 4, 0, 0, 1, 1, 2, 2, 3, 3 >>,
    j |-> << 1, 2, 5, 6, 1, 5, 2, 6, 3, 7, 0, 4 >>,
    k |-> << 2, 3, 6, 7, 5, 4, 6, 5, 7, 6, 4, 7 >>,
    color |-> color ]

\* VIRIDIS8 (line 40)
VIRIDIS8 == << "#440154", "#3b528b", "#21918c", "#5ec962",
               "#fde725", "#31688e", "#35b779", "#90d743" >>

Scatter3d(x, y, z) == [type |-> "scatter3d", x |-> x, y |-> y, z |-> z]

Surface(x, y, z) == [type |-> "surface", x |-> x, y |-> y, z |-> z]

\* 'riemann-sum' (lines 46..77)
ChartRiemannSum ==
  LET n     == 8
      xFine == linspace(0, 314, 300)
      yFine == MapNum(xFine)
      dx    == 39
      bars  == [b \in 1..n |->
                  boxMesh((b - 1) * dx, ((100 * (b - 1) + 92) * dx) \div 100,
                          0, 30, 0, Opaque, VIRIDIS8[b])]
  IN [ data   |-> bars \o << Scatter3d(xFine, Fill(300, 0), yFine) >>,
       layout |-> [title |-> "Riemann Sum", scene |-> "scene"] ]

\* 'surface-revolution' (lines 80..110)
ChartSurfaceRevolution ==
  LET nX    == 80
      nT    == 80
      xVals == linspace(0, 314, nX)
      rVals == MapNum(xVals)
      theta == linspace(0, 628, nT)
      Xs    == [t \in 1..Len(theta) |-> xVals]
      Ys    == Grid(theta, rVals)
      Zs    == Grid(theta, rVals)
  IN [ data   |-> << Surface(Xs, Ys, Zs),
                     Scatter3d(xVals, rVals, Fill(nX, 0)) >>,
       layout |-> [title |-> "Surface of Revolution", scene |-> "scene"] ]

\* '3d-coordinates' (lines 113..134)
Chart3dCoordinates ==
  LET P == << 3, 4, 5 >>
  IN [ data   |-> << Scatter3d(<< P[1] >>, << P[2] >>, << P[3] >>),
                     Scatter3d(<< P[1], P[1] >>, << P[2], P[2] >>, << 0, P[3] >>),
                     Scatter3d(<< P[1], P[1] >>, << 0, P[2] >>, << 0, 0 >>),
                     Scatter3d(<< 0, P[1] >>, << P[2], P[2] >>, << 0, 0 >>),
                     Scatter3d(<< P[1] >>, << P[2] >>, << 0 >>) >>,
       layout |-> [title |-> "3D Coordinate System", scene |-> "scene"] ]

\* 'helix-tangent' (lines 137..171)
ChartHelixTangent ==
  LET n == 500
      t == linspace(0, 1257, n)
      x == MapNum(t)
      y == MapNum(t)
      z == t
  IN [ data   |-> << Scatter3d(x, y, z),
                     [ type |-> "cone",
                       x |-> << Opaque >>, y |-> << Opaque >>, z |-> << Opaque >>,
                       u |-> << Opaque >>, v |-> << Opaque >>, w |-> << Opaque >> ],
                     Scatter3d(<< Opaque >>, << Opaque >>, << Opaque >>),
                     Scatter3d(MapNum(t), MapNum(t), Fill(n, 0)) >>,
       layout |-> [title |-> "Helix", scene |-> "scene"] ]

\* 'multivariable-surface' (lines 174..196)
ChartMultivariableSurface ==
  LET n    == 80
      xArr == linspace(-300, 300, n)
      yArr == linspace(-300, 300, n)
      Z    == Grid(yArr, xArr)
  IN [ data   |-> << Surface(xArr, yArr, Z) >>,
       layout |-> [title |-> "Functions of Several Variables", scene |-> "scene"] ]

\* 'partial-derivatives' (lines 199..216)
ChartPartialDerivatives ==
  LET n    == 60
      xArr == linspace(-200, 200, n)
      yArr == linspace(-200, 200, n)
      Z    == Grid(yArr, xArr)
  IN [ data   |-> << Surface(xArr, yArr, Z),
                     Scatter3d(xArr, Fill(n, 0), MapNum(xArr)),
                     Scatter3d(Fill(n, 0), xArr, MapNum(xArr)) >>,
       layout |-> [title |-> "Partial-Derivative Cross-Sections", scene |-> "scene"] ]

\* 'tangent-plane' (lines 219..238)
ChartTangentPlane ==
  LET n      == 50
      xArr   == linspace(-200, 200, n)
      yArr   == linspace(-200, 200, n)
      Z      == Grid(yArr, xArr)
      ZPlane == Grid(yArr, xArr)
  IN [ data   |-> << Surface(xArr, yArr, Z),
                     Surface(xArr, yArr, ZPlane),
                     Scatter3d(<< 1 >>, << 1 >>, << 2 >>) >>,
       layout |-> [title |-> "Tangent Plane", scene |-> "scene"] ]

\* 'gradient-vectors' (lines 241..281)
ChartGradientVectors ==
  LET n    == 120
      xArr == linspace(-300, 300, n)
      yArr == linspace(-300, 300, n)
      Z    == Grid(yArr, xArr)
      gn   == 10
      gx   == linspace(-250, 250, gn)
      gy   == linspace(-250, 250, gn)
      \* the double loop of lines 254..266 pushes three values per arrow
      \* to lineX and lineY and one to tipX, tipY, tipAngle
      lineX == Fill(3 * Len(gy) * Len(gx), Opaque)
      lineY == Fill(3 * Len(gy) * Len(gx), Opaque)
      tipX  == Fill(Len(gy) * Len(gx), Opaque)
      tipY  == Fill(Len(gy) * Len(gx), Opaque)
  IN [ data   |-> << [type |-> "contour", x |-> xArr, y |-> yArr, z |-> Z],
                     [type |-> "scatter", x |-> lineX, y |-> lineY],
                     [type |-> "scatter", x |-> tipX, y |-> tipY] >>,
       layout |-> [title |-> "Gradient", xaxis |-> "xaxis", yaxis |-> "yaxis",
                   height |-> 550] ]

\* 'critical-points' (lines 284..316)
ChartCriticalPoints ==
  LET n        == 50
      xArr     == linspace(-200, 200, n)
      yArr     == linspace(-200, 200, n)
      saddle   == Grid(yArr, xArr)
      localMin == Grid(yArr, xArr)
      localMax == Grid(yArr, xArr)
      dot      == Scatter3d(<< 0 >>, << 0 >>, << 0 >>)
  IN [ data   |-> << Surface(xArr, yArr, saddle), dot,
                     Surface(xArr, yArr, localMin), dot,
                     Surface(xArr, yArr, localMax), dot >>,
       layout |-> [title |-> "Critical Points", scene |-> "scene",
                   scene2 |-> "scene2", scene3 |-> "scene3", height |-> 500,
                   annotations |-> "annotations"] ]

\* 'double-integral' (lines 319..340)
ChartDoubleIntegral ==
  LET n    == 50
      xArr == linspace(0, 200, n)
      yArr == linspace(0, 200, n)
      Z    == Grid(yArr, xArr)
  IN [ data   |-> << Surface(xArr, yArr, Z),
                     Surface(xArr, yArr, [j \in 1..Len(yArr) |-> Fill(n, 0)]) >>,
       layout |-> [title |-> "Double Integral", scene |-> "scene"] ]

\* 'coordinate-systems' (lines 343..393)
ChartCoordinateSystems ==
  LET nT    == 80
      theta == linspace(0, 628, nT)
      nZ    == 30
      zArr  == linspace(0, 300, nZ)
      cylX  == Grid(zArr, theta)
      cylY  == Grid(zArr, theta)
      cylZ  == [j \in 1..Len(zArr) |-> Fill(nT, zArr[j])]
      phi   == linspace(0, 314, nT)
      sphX  == Grid(theta, phi)
      sphY  == Grid(theta, phi)
      sphZ  == Grid(theta, phi)
  IN [ data   |-> << Surface(cylX, cylY, cylZ),
                     Scatter3d(<< Opaque >>, << Opaque >>, << 200 >>),
                     Scatter3d(<< 0, Opaque >>, << 0, Opaque >>, << 200, 200 >>),
                     Scatter3d(<< Opaque, Opaque >>, << Opaque, Opaque >>, << 0, 200 >>),
                     Surface(sphX, sphY, sphZ),
                     Scatter3d(<< Opaque >>, << Opaque >>, << Opaque >>),
                     Scatter3d(<< 0, Opaque >>, << 0, Opaque >>, << 0, Opaque >>) >>,
       layout |-> [title |-> "3D Coordinate Systems", scene |-> "scene",
                   scene2 |-> "scene2", height |-> 520,
                   annotations |-> "annotations"] ]

\* 'vector-field-3d' (lines 396..420): the triple loop of line 399 runs z
\* outermost and x innermost.
ChartVectorField3d ==
  LET pts == << -2, -1, 0, 1, 2 >>
      m   == Len(pts)
      X   == [k \in 1..(m * m * m) |-> pts[((k - 1) % m) + 1]]
      Y   == [k \in 1..(m * m * m) |-> pts[(((k - 1) \div m) % m) + 1]]
      Z   == [k \in 1..(m * m * m) |-> pts[((k - 1) \div (m * m)) + 1]]
  IN [ data   |-> << [ type |-> "cone", x |-> X, y |-> Y, z |-> Z,
                       u |-> MapNum(Y), v |-> MapNum(X), w |-> MapNum(Z) ] >>,
       layout |-> [title |-> "3D Vector Field", scene |-> "scene"] ]

\* 'black-scholes' (lines 423..460)
ChartBlackScholes ==
  LET nS == 60
      nT == 60
      S  == linspace(6000, 15000, nS)
      T  == linspace(2, 200, nT)
      V  == Grid(T, S)
      D  == Grid(T, S)
  IN [ data   |-> << Surface(S, T, V), Surface(S, T, D) >>,
       layout |-> [title |-> "Option Greeks", scene |-> "scene",
                   scene2 |-> "scene2", height |-> 520,
                   annotations |-> "annotations"] ]

\* CHARTS[name]() for an own key of CHARTS (lines 43..461).
CHARTS(name) ==
  CASE name = "riemann-sum"           -> ChartRiemannSum
    [] name = "surface-revolution"    -> ChartSurfaceRevolution
    [] name = "3d-coordinates"        -> Chart3dCoordinates
    [] name = "helix-tangent"         -> ChartHelixTangent
    [] name = "multivariable-surface" -> ChartMultivariableSurface
    [] name = "partial-derivatives"   -> ChartPartialDerivatives
    [] name = "tangent-plane"         -> ChartTangentPlane
    [] name = "gradient-vectors"      -> ChartGradientVectors
    [] name = "critical-points"       -> ChartCriticalPoints
    [] name = "double-integral"       -> ChartDoubleIntegral
    [] name = "coordinate-systems"    -> ChartCoordinateSystems
    [] name = "vector-field-3d"       -> ChartVectorField3d
    [] name = "black-scholes"         -> ChartBlackScholes

\* The surface traces whose x and y are grids like z (lines 94, 373, 378),
\* as chart key and position in data.
ParametricSurfaces ==
  { << "surface-revolution", 1 >>, << "coordinate-systems", 1 >>,
    << "coordinate-systems", 5 >> }

\* The identifiers the host passes in this model.
Names == { "riemann-sum", "gradient-vectors", "constructor", "__proto__",
           "not-a-real-chart" }

\* ------------------------------------------------------------------- state
VARIABLES
  _plotlyPromise, \* "null" | "pending" | "fulfilled" | "rejected"   (line 464)
  windowPlotly,   \* window.Plotly is defined
  scripts,        \* script elements appended to document.head
  loadFailed,     \* a script element's error event has fired
  reactions,      \* then-callbacks registered on the pending promise, in order
  microtasks,     \* promise jobs queued by the engine, FIFO
  checkpoint,     \* a microtask checkpoint is running: the queue drains first
  phase,          \* per instance: "init" | "mounted" | "notfound" | "crashed" | "unmounted"
  chartName,      \* per instance: the chartName prop
  divRef,         \* per instance: divRef.current is the container (TRUE) or null
  ready,          \* per instance: the ready state                    (line 482)
  issued,         \* per instance: the chart names of its loadPlotly().then calls, in order
  engineLog,      \* per container: the engine calls, a chart name (newPlot) or "purge"
  consoleErrors,  \* console.error calls of the catch handler         (line 501)
  escaped,        \* where exceptions left the component: "effect", "cleanup"
  received,       \* the handles the then-callbacks were called with
  calc            \* SpecCalc: the last helper call and its result

adapterVars == << _plotlyPromise, windowPlotly, scripts, loadFailed, reactions,
                 microtasks, checkpoint, phase, chartName, divRef, ready,
                 issued, engineLog, consoleErrors, escaped, received >>

vars == << _plotlyPromise, windowPlotly, scripts, loadFailed, reactions, microtasks,
           checkpoint, phase, chartName, divRef, ready, issued,
           engineLog, consoleErrors, escaped, received, calc >>

\* ------------------------------------------------------------- loadPlotly
\* loadPlotly without the memo test of line 466.
loadPlotly_noMemo(p, w) ==
  IF w THEN [promise |-> p, fetch |-> 0, ret |-> "fulfilled"]
  ELSE [promise |-> "pending", fetch |-> 1, ret |-> "pending"]

\* loadPlotly() (lines 465..477) from the memo p and the global w:
\* the memo afterwards, the number of scripts appended, and the state of
\* the promise returned.
loadPlotly(p, w) ==
  IF p # "null" THEN [promise |-> p, fetch |-> 0, ret |-> p]
  ELSE IF w THEN [promise |-> p, fetch |-> 0, ret |-> "fulfilled"]
  ELSE [promise |-> "pending", fetch |-> 1, ret |-> "pending"]

\* An onload that also clears the memo.
OnLoad_reset == "null"

\* s.onload = () => resolve(window.Plotly)  (line 472): the memo keeps the
\* fulfilled promise.
OnLoad == "fulfilled"

\* An onerror that clears the memo so that the next call fetches again.
OnError_retry == "null"

\* s.onerror = reject  (line 473): the memo keeps the rejected promise.
OnError == "rejected"

\* ----------------------------------------------------- effect and cleanup
\* A cleanup that tests divRef.current only: purge on an undefined global
\* throws.
Cleanup_noEngineCheck(ref, engine) ==
  IF ~ref THEN "noop" ELSE IF engine THEN "purge" ELSE "throw"

\* The cleanup (line 504) from divRef.current and window.Plotly.
Cleanup(ref, engine) ==
  IF ref /\ engine THEN "purge" ELSE "noop"

\* A then-callback without the guard of line 490.
ThenCallback_noGuard(ref, def) ==
  IF def # "producer" THEN "throw" ELSE "draw"

\* The then-callback (lines 489..500) on a fulfilled load, from
\* divRef.current and the kind of def: "skip" (line 490), "throw" (layout is
\* undefined at line 497) or "draw" (lines 499, 500).
ThenCallback(ref, def) ==
  IF ~ref THEN "skip"
  ELSE IF def # "producer" THEN "throw"
  ELSE "draw"

\* A then-callback that calls setReady(true) before the guard of line 490.
SetReady_beforeGuard(out) == out \in { "draw", "skip" }

\* setReady(true) (line 500) is reached exactly when newPlot (line 499) has
\* been called and returned.
SetReady(out) == out = "draw"

\* The order in which the reactions of a settled promise are queued.
Reactions(rs) == rs

Job(i, name, settled) == [inst |-> i, chart |-> name, settled |-> settled]

\* The state after instance i's effect body (lines 488..501) runs for `name`
\* with the engine log of i's container being `log` and the exceptions
\* escaped so far `esc`.
RunEffect(i, name, log, esc) ==
  LET def == Lookup(name) IN
  IF def = "inheritedThrow"
  THEN \* def() throws inside the effect: the error leaves the component and
       \* the host tears the instance down.
       /\ escaped' = esc \cup { "effect" }
       /\ phase' = [phase EXCEPT ![i] = "crashed"]
       /\ divRef' = [divRef EXCEPT ![i] = FALSE]
       /\ chartName' = [chartName EXCEPT ![i] = name]
       /\ engineLog' = [engineLog EXCEPT ![i] = log]
       /\ UNCHANGED << _plotlyPromise, scripts, reactions, microtasks, issued >>
  ELSE LET r == loadPlotly(_plotlyPromise, windowPlotly) IN
       /\ _plotlyPromise' = r.promise
       /\ scripts' = scripts + r.fetch
       /\ IF r.ret = "pending"
          THEN /\ reactions' = Append(reactions, Job(i, name, "pending"))
               /\ UNCHANGED microtasks
          ELSE /\ microtasks' = Append(microtasks, Job(i, name, r.ret))
               /\ UNCHANGED reactions
       /\ issued' = [issued EXCEPT ![i] = Append(@, name)]
       /\ phase' = [phase EXCEPT ![i] = "mounted"]
       /\ divRef' = [divRef EXCEPT ![i] = TRUE]
       /\ chartName' = [chartName EXCEPT ![i] = name]
       /\ engineLog' = [engineLog EXCEPT ![i] = log]
       /\ escaped' = esc

\* The engine log of i's container after the cleanup ran with divRef.current
\* being `ref`.
AfterCleanup(i, ref) ==
  IF Cleanup(ref, windowPlotly) = "purge"
  THEN Append(engineLog[i], "purge") ELSE engineLog[i]

\* The exceptions escaped after that cleanup (window.Plotly.purge on an
\* undefined global would throw).
EscapedAfterCleanup(ref) ==
  IF Cleanup(ref, windowPlotly) = "throw"
  THEN escaped \cup { "cleanup" } ELSE escaped

\* ----------------------------------------------------------------- actions
RECURSIVE ChangesUpTo(_)
ChangesUpTo(n) ==
  IF n = 0 THEN 0
  ELSE ChangesUpTo(n - 1) + (IF issued[n] = << >> THEN 0 ELSE Len(issued[n]) - 1)

\* The effect re-runs caused by chartName changes so far.
Changes == ChangesUpTo(NumInst)

Init ==
  /\ _plotlyPromise = "null"
  /\ windowPlotly \in BOOLEAN      \* another script may have defined the global
  /\ scripts = 0
  /\ loadFailed = FALSE
  /\ reactions = << >>
  /\ microtasks = << >>
  /\ checkpoint = FALSE
  /\ phase = [i \in Inst |-> "init"]
  /\ chartName = [i \in Inst |-> "none"]
  /\ divRef = [i \in Inst |-> FALSE]
  /\ ready = [i \in Inst |-> FALSE]
  /\ issued = [i \in Inst |-> << >>]
  /\ engineLog = [i \in Inst |-> << >>]
  /\ consoleErrors = 0
  /\ escaped = {}
  /\ received = {}
  /\ calc = [op |-> "none"]

\* First render and commit of instance i with chartName = name
\* (lines 480..506).  Instances are numbered in the order the host mounts
\* them.
Mount(i, name) ==
  /\ ~checkpoint
  /\ phase[i] = "init"
  /\ \A j \in 1..(i - 1) : phase[j] # "init"
  /\ IF Lookup(name) = "undefined"
     THEN \* line 485: the inline error, no effect registered
          /\ phase' = [phase EXCEPT ![i] = "notfound"]
          /\ chartName' = [chartName EXCEPT ![i] = name]
          /\ UNCHANGED << _plotlyPromise, scripts, reactions, microtasks,
                          divRef, issued, engineLog, escaped >>
     ELSE RunEffect(i, name, engineLog[i], escaped)
  /\ UNCHANGED << windowPlotly, loadFailed, checkpoint, ready, consoleErrors,
                  received, calc >>

\* The chartName prop of a mounted instance changes: the previous effect's
\* cleanup runs with the container still attached, then the effect runs
\* again (dependency list, line 506).  Only identifiers with a truthy
\* CHARTS entry keep the hook order of the first render.
ChangeChart(i, name) ==
  /\ ~checkpoint
  /\ phase[i] = "mounted"
  /\ name # chartName[i]
  /\ Lookup(name) # "undefined"
  /\ Changes < MaxChanges
  /\ RunEffect(i, name, AfterCleanup(i, divRef[i]), EscapedAfterCleanup(divRef[i]))
  /\ UNCHANGED << windowPlotly, loadFailed, checkpoint, ready, consoleErrors,
                  received, calc >>

\* The host removes instance i.  The host either detaches the ref before
\* it runs the effect cleanup (refFirst) or after it; both orders exist
\* among the host framework's releases.
Unmount(i, refFirst) ==
  /\ ~checkpoint
  /\ phase[i] \in { "mounted", "notfound" }
  /\ phase' = [phase EXCEPT ![i] = "unmounted"]
  /\ divRef' = [divRef EXCEPT ![i] = FALSE]
  /\ engineLog' = [engineLog EXCEPT ![i] =
        IF phase[i] = "mounted"
        THEN AfterCleanup(i, divRef[i] /\ ~refFirst) ELSE @]
  /\ escaped' = IF phase[i] = "mounted"
                THEN EscapedAfterCleanup(divRef[i] /\ ~refFirst) ELSE escaped
  /\ UNCHANGED << _plotlyPromise, windowPlotly, scripts, loadFailed, reactions,
                  microtasks, checkpoint, chartName, ready, issued,
                  consoleErrors, received, calc >>

\* The pending promise settles as `settled`: its reactions are queued in
\* registration order and the memo becomes `memo`.
Settle(memo, settled) ==
  /\ _plotlyPromise' = memo
  /\ microtasks' = microtasks \o
        [k \in 1..Len(reactions) |->
            [Reactions(reactions)[k] EXCEPT !.settled = settled]]
  /\ reactions' = << >>
  /\ checkpoint' = (microtasks' # << >>)

\* The script executes and its load event fires (line 472).
ScriptLoad ==
  /\ _plotlyPromise = "pending"
  /\ microtasks = << >>
  /\ windowPlotly' = TRUE
  /\ Settle(OnLoad, "fulfilled")
  /\ UNCHANGED << scripts, loadFailed, phase, chartName, divRef, ready, issued, engineLog,
                  consoleErrors, escaped, received, calc >>

\* The script fails to load (line 473).
ScriptError ==
  /\ _plotlyPromise = "pending"
  /\ microtasks = << >>
  /\ Settle(OnError, "rejected")
  /\ loadFailed' = TRUE
  /\ UNCHANGED << windowPlotly, scripts, phase, chartName, divRef, ready,
                  issued, engineLog, consoleErrors, escaped, received, calc >>

\* The head of the microtask queue runs: the then-callback of lines
\* 489..500 with its catch handler of line 501.
RunMicrotask ==
  /\ microtasks # << >>
  /\ LET job == Head(microtasks)
         i   == job.inst
         out == IF job.settled = "fulfilled"
                THEN ThenCallback(divRef[i], Lookup(job.chart))
                ELSE "rejected"
     IN /\ microtasks' = Tail(microtasks)
        /\ checkpoint' = (Tail(microtasks) # << >>)
        /\ received' = IF job.settled = "fulfilled"
                       THEN received \cup { "Plotly" } ELSE received
        /\ engineLog' = IF out = "draw"
                        THEN [engineLog EXCEPT ![i] = Append(@, job.chart)]
                        ELSE engineLog
        /\ ready' = IF SetReady(out) THEN [ready EXCEPT ![i] = TRUE] ELSE ready
        /\ consoleErrors' = IF out \in { "throw", "rejected" }
                            THEN consoleErrors + 1 ELSE consoleErrors
  /\ UNCHANGED << _plotlyPromise, windowPlotly, scripts, loadFailed, reactions,
                  phase, chartName, divRef, issued, escaped, calc >>

Next ==
  \/ \E i \in Inst, name \in Names : Mount(i, name)
  \/ \E i \in Inst, name \in Names : ChangeChart(i, name)
  \/ \E i \in Inst, refFirst \in BOOLEAN : Unmount(i, refFirst)
  \/ ScriptLoad
  \/ ScriptError
  \/ RunMicrotask

Spec == Init /\ [][Next]_vars

\* ---------------------------------------------------------------- helpers
\* The endpoints linspace is called with.
Inputs == { v \in (-MaxAbs)..MaxAbs : Representable(v) }

\* A caller evaluates linspace(start, end, n).
CallLinspace(start, end, n) ==
  /\ calc.op = "none"
  /\ calc' = [op |-> "linspace", start |-> start, end |-> end, n |-> n,
              result |-> linspace(start, end, n)]
  /\ UNCHANGED adapterVars

\* A caller evaluates CHARTS[name]() for a chart key.
CallProduce(name) ==
  /\ calc.op = "none"
  /\ calc' = [op |-> "produce", id |-> name, result |-> CHARTS(name)]
  /\ UNCHANGED adapterVars

\* A layout merge that always uses the default height.
fullLayout_fixedHeight(layout) ==
  [ paper_bgcolor |-> "transparent",
    plot_bgcolor  |-> "transparent",
    font          |-> [family |-> "inherit"],
    margin        |-> [t |-> 80, r |-> 20, b |-> 50, l |-> 20],
    height        |-> 500 ] @@ layout

\* fullLayout (lines 491..498): the spread of layout comes first, so a key
\* written after it replaces the descriptor's; height keeps a truthy
\* layout.height.
fullLayout(layout) ==
  [ paper_bgcolor |-> "transparent",
    plot_bgcolor  |-> "transparent",
    font          |-> [family |-> "inherit"],
    margin        |-> [t |-> 80, r |-> 20, b |-> 50, l |-> 20],
    height        |-> IF "height" \in DOMAIN layout /\ layout.height # 0
                      THEN layout.height ELSE 500 ] @@ layout

\* The arguments of Plotly.newPlot after the container (line 499).
newPlotArgs(descriptor) ==
  [ data   |-> descriptor.data,
    layout |-> fullLayout(descriptor.layout),
    config |-> [responsive |-> TRUE, displayModeBar |-> TRUE] ]

\* The effect body and its then-callback (lines 488..500) run for `name` on
\* an attached container with the engine loaded: the descriptor def()
\* returned and, when the callback reaches line 499, what newPlot is given.
CallNewPlot(name) ==
  /\ calc.op = "none"
  /\ LET drawn == ThenCallback(TRUE, Lookup(name)) = "draw" IN
     calc' = [op |-> "newPlot", id |-> name, drawn |-> drawn,
              descriptor |-> IF drawn THEN CHARTS(name) ELSE << >>,
              args |-> IF drawn THEN newPlotArgs(CHARTS(name)) ELSE << >>]
  /\ UNCHANGED adapterVars

\* The bounds boxMesh is called with.
BoxCoords == 0..MaxCoord

\* A caller evaluates boxMesh(x0, x1, y0, y1, z0, z1, color), as line 55 does.
CallBoxMesh(x0, x1, y0, y1, z0, z1) ==
  /\ calc.op = "none"
  /\ calc' = [op |-> "boxMesh", x0 |-> x0, x1 |-> x1, y0 |-> y0, y1 |-> y1,
              z0 |-> z0, z1 |-> z1,
              result |-> boxMesh(x0, x1, y0, y1, z0, z1, VIRIDIS8[1])]
  /\ UNCHANGED adapterVars

NextCalc ==
  \/ \E start \in Inputs, end \in Inputs, n \in 2..MaxCount :
        CallLinspace(start, end, n)
  \/ \E name \in ChartKeys : CallProduce(name)
  \/ \E x0 \in BoxCoords, x1 \in BoxCoords, y0 \in BoxCoords,
        y1 \in BoxCoords, z0 \in BoxCoords, z1 \in BoxCoords :
        CallBoxMesh(x0, x1, y0, y1, z0, z1)
  \/ \E name \in ChartKeys \cup InheritedCallable : CallNewPlot(name)

SpecCalc == Init /\ [][NextCalc]_vars

\* ------------------------------------------------------- derived notions
\* The newPlot calls of a log, in order.
Draws(log) == SelectSeq(log, LAMBDA e : e # "purge")

\* The engine holds a drawing for i's container: drawn and not purged since.
Held(i) == engineLog[i] # << >> /\ engineLog[i][Len(engineLog[i])] # "purge"

RECURSIVE CallsUpTo(_)
CallsUpTo(n) == IF n = 0 THEN 0 ELSE CallsUpTo(n - 1) + Len(issued[n])

\* loadPlotly calls made so far.
TotalCalls == CallsUpTo(NumInst)

\* The deferred then-callbacks of instance i that have not run yet.
Waiting(i) ==
  Len(SelectSeq(reactions, LAMBDA j : j.inst = i))
    + Len(SelectSeq(microtasks, LAMBDA j : j.inst = i))

\* The first n elements of a sequence.
Prefix(seq, n) == [k \in 1..n |-> seq[k]]

\* Instance i's cleanup appends a purge in this step.
PurgeAdded(i) ==
  /\ Len(engineLog'[i]) = Len(engineLog[i]) + 1
  /\ engineLog'[i][Len(engineLog'[i])] = "purge"

\* This step runs the then-callback of an instance the host has removed.
RunsRemoved ==
  /\ microtasks # << >>
  /\ microtasks' = Tail(microtasks)
  /\ microtasks[1].settled = "fulfilled"
  /\ phase[microtasks[1].inst] = "unmounted"

\* ------------------------------------------------------------------ claims

\* C1: however many loadPlotly calls are made while the load is in flight,
\* and by whichever instances, one script element is appended; every
\* then-callback is handed the one engine handle; calls after the load has
\* settled append nothing.  (With the global already defined by the page,
\* line 467 answers without any fetch.)
C1_SingleFetch ==
  /\ scripts <= 1
  /\ (_plotlyPromise # "null") <=> (scripts = 1)
  /\ TotalCalls > 0 => (scripts = 1 \/ (windowPlotly /\ _plotlyPromise = "null"))
  /\ received \subseteq { "Plotly" }
  /\ _plotlyPromise # "pending" => reactions = << >>

\* Two instances called loadPlotly before the load resolved, the load has
\* just resolved and both callbacks are queued behind one script.
C1_Witness ==
  /\ _plotlyPromise = "fulfilled"
  /\ checkpoint
  /\ scripts = 1
  /\ \E a, b \in 1..Len(microtasks) :
        /\ microtasks[a].inst # microtasks[b].inst
        /\ microtasks[a].settled = "fulfilled"
        /\ microtasks[b].settled = "fulfilled"

\* C2: a container the engine drew into is never removed without a purge.
C2_PurgedOnRemoval ==
  \A i \in Inst : phase[i] = "unmounted" => ~Held(i)

\* C3: an identifier that is not a registered chart key gives the inline
\* "not found" result: no loadPlotly call, no draw, no escaping exception.
C3_UnknownIsNotFound ==
  /\ escaped = {}
  /\ \A i \in Inst :
        /\ \A k \in 1..Len(issued[i]) : issued[i][k] \in ChartKeys
        /\ (phase[i] # "init" /\ chartName[i] \notin ChartKeys)
              => phase[i] \in { "notfound", "unmounted" }

\* C4: nothing is drawn while the engine is absent; the draws into a
\* container happen in the order its mounts were issued; and once none of a
\* mounted instance's deferred mounts is left, its container shows the
\* current chart identifier.
C4_ShowsLatestMount ==
  /\ ~windowPlotly => \A i \in Inst : Draws(engineLog[i]) = << >>
  /\ \A i \in Inst :
        (phase[i] = "mounted" /\ windowPlotly /\ Waiting(i) = 0)
          => (Held(i) /\ engineLog[i][Len(engineLog[i])] = chartName[i])

\* The part of C4 that does not depend on the identifier being a chart key:
\* the draws of a mounted instance are its issued mounts that have run, in
\* issue order, those without a descriptor left out.
DrawsInIssueOrder ==
  \A i \in Inst :
    (phase[i] = "mounted" /\ windowPlotly)
      => Draws(engineLog[i]) =
           SelectSeq(Prefix(issued[i], Len(issued[i]) - Waiting(i)),
                     LAMBDA n : Lookup(n) = "producer")

\* C4 restricted to chart keys: the final display is the current chart.
ShowsLatestRegistered ==
  \A i \in Inst :
    (phase[i] = "mounted" /\ windowPlotly /\ Waiting(i) = 0
       /\ chartName[i] \in ChartKeys)
      => (Held(i) /\ engineLog[i][Len(engineLog[i])] = chartName[i])

\* C5: the deferred mount of an instance that was removed draws nothing,
\* leaves ready alone and raises nothing; and removing an instance while the
\* engine global does not exist raises nothing and calls nothing.
C5_RemovedBeforeLoad ==
  [][ /\ RunsRemoved =>
           /\ engineLog' = engineLog
           /\ ready' = ready
           /\ consoleErrors' = consoleErrors
           /\ escaped' = escaped
      /\ \A i \in Inst :
           (phase[i] = "mounted" /\ phase'[i] = "unmounted" /\ ~windowPlotly)
             => (escaped' = escaped /\ engineLog' = engineLog /\ ~divRef'[i])
    ]_vars

\* The only instance that ever called loadPlotly was removed while the
\* load was in flight, the load then resolved and its deferred mount has
\* run: nothing drawn, ready false, nothing logged.
C5_Witness ==
  \E i \in Inst :
    /\ phase[i] = "unmounted"
    /\ issued[i] # << >>
    /\ _plotlyPromise = "fulfilled"
    /\ TotalCalls = 1
    /\ Waiting(i) = 0
    /\ engineLog[i] = << >>
    /\ ~ready[i]
    /\ escaped = {}
    /\ consoleErrors = 0

\* C6: after the script load failed nothing is drawn, no instance is
\* ready, every callback that ran logged one error, and still only the
\* one script was ever appended.
C6_FailedLoadContained ==
  loadFailed =>
    /\ _plotlyPromise = "rejected"
    /\ scripts = 1
    /\ ~windowPlotly
    /\ \A i \in Inst : Draws(engineLog[i]) = << >> /\ ~ready[i]
    /\ consoleErrors = TotalCalls - Len(microtasks)
    /\ "cleanup" \notin escaped

\* The load failed, an instance called loadPlotly afterwards (its callback
\* is queued outside a checkpoint), and earlier failures were logged.
C6_Witness ==
  /\ loadFailed
  /\ ~checkpoint
  /\ microtasks # << >>
  /\ consoleErrors >= 1
  /\ scripts = 1

\* C7: the memoized load never goes back: once set it is never null again,
\* fulfilled is entered from pending only and is never left, and the
\* engine global stays defined.
C7_LoaderMonotone ==
  [][ /\ _plotlyPromise # "null" => _plotlyPromise' # "null"
      /\ _plotlyPromise = "fulfilled" => _plotlyPromise' = "fulfilled"
      /\ (_plotlyPromise' = "fulfilled" /\ _plotlyPromise # "fulfilled")
            => _plotlyPromise = "pending"
      /\ _plotlyPromise = "null" => _plotlyPromise' \in { "null", "pending" }
      /\ windowPlotly => windowPlotly'
    ]_vars

\* The engine is ready, one instance has been removed and another called
\* loadPlotly after readiness.
C7_Witness ==
  /\ _plotlyPromise = "fulfilled"
  /\ \E i \in Inst : phase[i] = "unmounted" /\ issued[i] # << >>
  /\ ~checkpoint
  /\ microtasks # << >>

\* C8 as claimed: the cleanup never calls the engine for a container that
\* was never drawn into, and never throws.
C8_NoCallOnUndrawn ==
  /\ "cleanup" \notin escaped
  /\ \A i \in Inst : \A k \in 1..Len(engineLog[i]) :
        engineLog[i][k] = "purge"
          => \E j \in 1..(k - 1) : engineLog[i][j] # "purge"

\* C8 as amended: the cleanup never throws, and it calls purge only with
\* the container reference set and the engine global defined.
C8_CleanupGuarded ==
  [][ /\ "cleanup" \notin escaped'
      /\ \A i \in Inst : PurgeAdded(i) => (windowPlotly /\ divRef[i])
    ]_vars

\* An instance that issued a mount was removed with the engine absent and
\* its container never touched.
C8_Witness ==
  \E i \in Inst :
    /\ phase[i] = "unmounted"
    /\ issued[i] # << >>
    /\ engineLog[i] = << >>
    /\ ~windowPlotly


\* A grid of `rows` rows, each `cols` wide.
Rectangular(g, rows, cols) ==
  /\ Len(g) = rows
  /\ \A j \in 1..Len(g) : Len(g[j]) = cols

\* C9: in the descriptor of every chart key, each surface or contour trace
\* has a z grid with one row per y value, each row one entry per x value;
\* where x and y are grids themselves, x, y and z have the same rows and
\* widths.
C9_RectangularGrids ==
  calc.op = "produce" =>
    \A t \in 1..Len(calc.result.data) :
      LET tr == calc.result.data[t] IN
      tr.type \in { "surface", "contour" } =>
        IF << calc.id, t >> \in ParametricSurfaces
        THEN /\ Len(tr.z) > 0
             /\ Rectangular(tr.z, Len(tr.z), Len(tr.z[1]))
             /\ Rectangular(tr.x, Len(tr.z), Len(tr.z[1]))
             /\ Rectangular(tr.y, Len(tr.z), Len(tr.z[1]))
        ELSE Rectangular(tr.z, Len(tr.y), Len(tr.x))

\* The descriptor of 'coordinate-systems' was produced: its cylinder is a
\* grid of 30 rows of 80, its sphere one of 80 rows of 80.
C9_Witness ==
  /\ calc.op = "produce"
  /\ calc.id = "coordinate-systems"
  /\ calc.result.data[1].type = "surface"
  /\ Len(calc.result.data[1].z) = 30
  /\ Len(calc.result.data[1].z[1]) = 80
  /\ Len(calc.result.data[5].z) = 80

\* C10 as claimed: count values, the first start, the last end, and every
\* consecutive difference exactly (end - start) / (count - 1).
C10_ExactlyEven ==
  calc.op = "linspace" =>
    /\ Len(calc.result) = calc.n
    /\ calc.result[1] = calc.start
    /\ calc.result[calc.n] = calc.end
    /\ \A k \in 1..(calc.n - 1) :
          (calc.n - 1) * (calc.result[k + 1] - calc.result[k])
            = calc.end - calc.start

\* C10 as amended: count values, the first exactly start, ordered from
\* start towards end, and each within rounding error (8 units in the last
\* place of the larger endpoint magnitude) of
\* start + (end - start) * i / (count - 1).
C10_EvenUpToRounding ==
  calc.op = "linspace" =>
    LET r == calc.result
        n == calc.n
        m == IF Abs(calc.start) > Abs(calc.end) THEN calc.start ELSE calc.end
    IN /\ Len(r) = n
       /\ r[1] = calc.start
       /\ \A k \in 1..(n - 1) :
             /\ calc.start <= calc.end => r[k] <= r[k + 1]
             /\ calc.start >= calc.end => r[k] >= r[k + 1]
       /\ \A k \in 1..n :
             Abs((n - 1) * r[k]
                   - ((n - 1) * calc.start + (calc.end - calc.start) * (k - 1)))
               <= 8 * (n - 1) * Ulp(m)

\* A linspace call of three or more values whose last element is not end.
C10_Witness ==
  /\ calc.op = "linspace"
  /\ calc.n >= 3
  /\ calc.result[calc.n] # calc.end
  /\ calc.result[1] = calc.start

\* ---------------------------------------------------------------- C11
\* Vertex n (0-based, as the index arrays count) of a mesh.
Vertex(m, n) == << m.x[n + 1], m.y[n + 1], m.z[n + 1] >>

\* The vertex indices of triangle t (1..12) of a mesh.
Triangle(m, t) == { m.i[t], m.j[t], m.k[t] }

\* The six faces of the box of a boxMesh call c: an axis and the value the
\* face's plane fixes on it.
Faces(c) == { << 1, c.x0 >>, << 1, c.x1 >>, << 2, c.y0 >>, << 2, c.y1 >>,
              << 3, c.z0 >>, << 3, c.z1 >> }

\* The vertex indices of a mesh that lie in the plane of face f.
Corners(m, f) == { n \in 0..7 : Vertex(m, n)[f[1]] = f[2] }

\* The triangles of a mesh that lie in the plane of face f.
TrianglesIn(m, f) == { t \in 1..12 : Triangle(m, t) \subseteq Corners(m, f) }

\* C11: for x0 < x1, y0 < y1, z0 < z1, boxMesh returns exactly 8 vertices,
\* the 8 distinct corners of the box, and exactly 12 triangles, each an
\* index triple in 0..7 with three distinct vertices that lies in one of the
\* six face planes; each face is covered by exactly two triangles that
\* together use all four corners of that face.
C11_BoxMeshIsBox ==
  (calc.op = "boxMesh" /\ calc.x0 < calc.x1 /\ calc.y0 < calc.y1
     /\ calc.z0 < calc.z1) =>
    LET m == calc.result IN
    /\ Len(m.x) = 8 /\ Len(m.y) = 8 /\ Len(m.z) = 8
    /\ { Vertex(m, n) : n \in 0..7 } =
         { calc.x0, calc.x1 } \X { calc.y0, calc.y1 } \X { calc.z0, calc.z1 }
    /\ Cardinality({ Vertex(m, n) : n \in 0..7 }) = 8
    /\ Len(m.i) = 12 /\ Len(m.j) = 12 /\ Len(m.k) = 12
    /\ \A t \in 1..12 :
         /\ Triangle(m, t) \subseteq 0..7
         /\ Cardinality(Triangle(m, t)) = 3
         /\ Cardinality({ Vertex(m, n) : n \in Triangle(m, t) }) = 3
         /\ \E f \in Faces(calc) : t \in TrianglesIn(m, f)
    /\ \A f \in Faces(calc) :
         /\ Cardinality(TrianglesIn(m, f)) = 2
         /\ Cardinality(Corners(m, f)) = 4
         /\ UNION { Triangle(m, t) : t \in TrianglesIn(m, f) } = Corners(m, f)

\* A box with three proper extents has been meshed.
C11_Witness ==
  /\ calc.op = "boxMesh"
  /\ calc.x0 < calc.x1 /\ calc.y0 < calc.y1 /\ calc.z0 < calc.z1
  /\ Len(calc.result.i) = 12
  /\ Cardinality({ Vertex(calc.result, n) : n \in 0..7 }) = 8

\* ---------------------------------------------------------------- C12
\* The host defaults of lines 493..497.
HostDefaults ==
  [ paper_bgcolor |-> "transparent",
    plot_bgcolor  |-> "transparent",
    font          |-> [family |-> "inherit"],
    margin        |-> [t |-> 80, r |-> 20, b |-> 50, l |-> 20],
    height        |-> 500 ]

\* C12: for every descriptor that is mounted, newPlot receives the data
\* unchanged and a layout that agrees with the descriptor's layout on every
\* key the descriptor sets, the host defaults (transparent paper and plot
\* background, inherited font, margins t=80 r=20 b=50 l=20, height 500)
\* being supplied only for keys the descriptor leaves unset.
C12_LayoutMerged ==
  (calc.op = "newPlot" /\ calc.drawn) =>
    LET d == calc.descriptor
        a == calc.args
    IN /\ a.data = d.data
       /\ DOMAIN a.layout = DOMAIN d.layout \cup DOMAIN HostDefaults
       /\ \A key \in DOMAIN d.layout : a.layout[key] = d.layout[key]
       /\ \A key \in DOMAIN HostDefaults \ DOMAIN d.layout :
            a.layout[key] = HostDefaults[key]

\* A descriptor that sets its own height has been drawn.
C12_Witness ==
  /\ calc.op = "newPlot"
  /\ calc.drawn
  /\ "height" \in DOMAIN calc.descriptor.layout
  /\ calc.descriptor.layout.height # 500
  /\ calc.args.layout.margin = [t |-> 80, r |-> 20, b |-> 50, l |-> 20]

\* ---------------------------------------------------------------- C13
\* The loading placeholder of lines 510..518 is on the page.
Placeholder(i) == phase[i] = "mounted" /\ ~ready[i]

\* ready[i] turns true in this step, right after a draw on i's attached
\* container by a loaded engine.
ReadyAfterDraw(i) ==
  /\ ready'[i]
  /\ phase[i] = "mounted"
  /\ divRef[i]
  /\ windowPlotly
  /\ "Plotly" \in received'
  /\ \E name \in ChartKeys : engineLog'[i] = Append(engineLog[i], name)

\* C13: ready is false initially; in every reachable state ready = true
\* implies that the engine has finished loading and that newPlot has been
\* called at least once on the instance's own container; ready changes only
\* to true and only in the step that draws on the instance's live container;
\* the placeholder of a mounted instance is shown exactly while no draw has
\* completed for it.
C13_ReadyMeansDrawn ==
  /\ \A i \in Inst : ~ready[i]
  /\ [](\A i \in Inst :
          /\ ready[i] => (windowPlotly /\ "Plotly" \in received
                            /\ Draws(engineLog[i]) # << >>)
          /\ phase[i] = "mounted" =>
               (Placeholder(i) <=> Draws(engineLog[i]) = << >>))
  /\ [][\A i \in Inst : ready'[i] # ready[i] => ReadyAfterDraw(i)]_vars

\* One instance has been drawn by the engine the script loaded and shows
\* its chart, while a second mounted instance still shows the placeholder.
C13_Witness ==
  /\ scripts = 1
  /\ \E i \in Inst :
       /\ phase[i] = "mounted" /\ ready[i] /\ Held(i)
       /\ \E j \in Inst \ { i } : Placeholder(j) /\ engineLog[j] = << >>

=============================================================================
